---- MODULE Spec2Model ----
(***************************************************************************)
(* A model of moodle_course_status-specific.py: the retrying remote call   *)
(* (call_moodle), the domain queries built on it, the per-course           *)
(* aggregator (process_one_course) and the orchestrator (main): scope      *)
(* resolution, the worker pool, the merge of the task results and the      *)
(* workbook.                                                               *)
(*                                                                         *)
(* A Python string is the sequence of its characters, each a one-character *)
(* TLA+ string; a Python dict is the sequence of its items in insertion    *)
(* order.  The alphabet is ASCII: the codes 9-13, 28-31 and 32-126 without *)
(* the backquote (code 96), which a TLA+ string cannot hold.               *)
(***************************************************************************)
EXTENDS Integers, Sequences, FiniteSets, TLC

\* ------------------------------------------------------------------------
\* Settings (source lines 12-15).  The base delay of 1.5 s is counted in
\* tenths of a second.
DEFAULT_MAX_THREADS == 8
RETRY_COUNT == 3
RETRY_SLEEP_TENTHS == 15
SHEET_NAME_MAX == 31

\* ------------------------------------------------------------------------
\* Bounds of the model.
MaxCourses == 2
MaxUsers == 2
MaxMods == 2
MaxServerCourses == 2
MaxLines == 2
MaxStatuses == 1

\* ------------------------------------------------------------------------
\* Characters and strings.
Uppers == <<"A","B","C","D","E","F","G","H","I","J","K","L","M",
            "N","O","P","Q","R","S","T","U","V","W","X","Y","Z">>
Lowers == <<"a","b","c","d","e","f","g","h","i","j","k","l","m",
            "n","o","p","q","r","s","t","u","v","w","x","y","z">>
Digits == <<"0","1","2","3","4","5","6","7","8","9">>

\* The characters of codes 9-13, 28-31, 32-95 and 97-126, in code order.
Controls == <<"\t", "\n", "", "\f", "\r">>
Separators == <<"", "", "", "">>
Ascii32to95 ==
    <<" ","!","\"","#","$","%","&","'","(",")","*","+",",","-",".","/",
      "0","1","2","3","4","5","6","7","8","9",":",";","<","=",">","?",
      "@","A","B","C","D","E","F","G","H","I","J","K","L","M","N","O",
      "P","Q","R","S","T","U","V","W","X","Y","Z","[","\\","]","^","_">>
Ascii97to126 ==
    <<"a","b","c","d","e","f","g","h","i","j","k","l","m","n","o","p",
      "q","r","s","t","u","v","w","x","y","z","{","|","}","~">>

Range(s) == {s[i] : i \in 1..Len(s)}
Pos(ch, s) == CHOOSE i \in 1..Len(s) : s[i] = ch
IsUpper(ch) == ch \in Range(Uppers)
IsLower(ch) == ch \in Range(Lowers)
IsDigit(ch) == ch \in Range(Digits)

\* str.isspace() of one character: what str.strip() removes.
IsSpace(ch) == ch = " " \/ ch \in Range(Controls) \/ ch \in Range(Separators)

\* ord(ch): the code point of a character, the order Python compares
\* strings by.
Code(ch) ==
    CASE ch \in Range(Ascii32to95) -> 31 + Pos(ch, Ascii32to95)
      [] ch \in Range(Ascii97to126) -> 96 + Pos(ch, Ascii97to126)
      [] ch \in Range(Controls) -> 8 + Pos(ch, Controls)
      [] ch \in Range(Separators) -> 27 + Pos(ch, Separators)

LowerCh(ch) == IF IsUpper(ch) THEN Lowers[Pos(ch, Uppers)] ELSE ch
UpperCh(ch) == IF IsLower(ch) THEN Uppers[Pos(ch, Lowers)] ELSE ch

\* str.lower()
Lower(s) == [i \in 1..Len(s) |-> LowerCh(s[i])]

\* str.capitalize(): first character upper-cased, the rest lower-cased.
Capitalize(s) == [i \in 1..Len(s) |-> IF i = 1 THEN UpperCh(s[i]) ELSE LowerCh(s[i])]

\* str.strip(): leading and trailing whitespace removed.
RECURSIVE LStrip(_)
LStrip(s) == IF s # <<>> /\ IsSpace(Head(s)) THEN LStrip(Tail(s)) ELSE s
RECURSIVE RStrip(_)
RStrip(s) ==
    IF s # <<>> /\ IsSpace(s[Len(s)]) THEN RStrip(SubSeq(s, 1, Len(s) - 1)) ELSE s
Strip(s) == RStrip(LStrip(s))

\* str(n) of an integer.
RECURSIVE StrNat(_)
StrNat(n) == IF n < 10 THEN <<Digits[n + 1]>> ELSE StrNat(n \div 10) \o <<Digits[(n % 10) + 1]>>
Str(n) == IF n < 0 THEN <<"-">> \o StrNat(-n) ELSE StrNat(n)

\* s < t, as Python orders strings (by code point, a prefix first).
RECURSIVE StrLess(_, _)
StrLess(s, t) ==
    IF t = <<>> THEN FALSE
    ELSE IF s = <<>> THEN TRUE
    ELSE IF Code(Head(s)) # Code(Head(t)) THEN Code(Head(s)) < Code(Head(t))
    ELSE StrLess(Tail(s), Tail(t))

\* sep.join(parts)
RECURSIVE Join(_, _)
Join(sep, parts) ==
    IF parts = <<>> THEN <<>>
    ELSE IF Len(parts) = 1 THEN Head(parts)
    ELSE Head(parts) \o sep \o Join(sep, Tail(parts))

\* Python truthiness of the JSON values of "completed".
Truthy(v) == v \in {"True", "1"}

\* The labels the queries hand out, and the sheet title of line 284.
S_Completed == <<"C","o","m","p","l","e","t","e","d">>
S_Incomplete == <<"I","n","c","o","m","p","l","e","t","e">>
S_Failed == <<"F","a","i","l","e","d">>
S_NA == <<"N","/","A">>
S_Course == <<"C","o","u","r","s","e">>

\* The keys of the JSON objects the program reads.
k_id == <<"i","d">>
k_fullname == <<"f","u","l","l","n","a","m","e">>
k_username == <<"u","s","e","r","n","a","m","e">>
k_email == <<"e","m","a","i","l">>
k_department == <<"d","e","p","a","r","t","m","e","n","t">>
k_institution == <<"i","n","s","t","i","t","u","t","i","o","n">>
k_city == <<"c","i","t","y">>
k_country == <<"c","o","u","n","t","r","y">>
k_lastaccess == <<"l","a","s","t","a","c","c","e","s","s">>
k_roles == <<"r","o","l","e","s">>
k_customfields == <<"c","u","s","t","o","m","f","i","e","l","d","s">>
k_shortname == <<"s","h","o","r","t","n","a","m","e">>
k_name == <<"n","a","m","e">>
k_value == <<"v","a","l","u","e">>
k_roleid == <<"r","o","l","e","i","d">>

\* The keys of the rows and the headers of the sheets.
H_UserID == <<"U","s","e","r"," ","I","D">>
H_FullName == <<"F","u","l","l"," ","N","a","m","e">>
H_Username == <<"U","s","e","r","n","a","m","e">>
H_Email == <<"E","m","a","i","l">>
H_Department == <<"D","e","p","a","r","t","m","e","n","t">>
H_Institution == <<"I","n","s","t","i","t","u","t","i","o","n">>
H_City == <<"C","i","t","y">>
H_Country == <<"C","o","u","n","t","r","y">>
H_LastAccess == <<"L","a","s","t"," ","A","c","c","e","s","s">>
H_Roles == <<"R","o","l","e","(","s",")">>
H_CourseID == <<"C","o","u","r","s","e"," ","I","D">>
H_CourseName == <<"C","o","u","r","s","e"," ","N","a","m","e">>
H_CourseShortname == <<"C","o","u","r","s","e"," ","S","h","o","r","t","n","a","m","e">>
H_CourseCompletionStatus ==
    <<"C","o","u","r","s","e"," ","C","o","m","p","l","e","t","i","o","n"," ",
      "S","t","a","t","u","s">>
H_CompletionPct == <<"C","o","m","p","l","e","t","i","o","n"," ","%">>

\* ------------------------------------------------------------------------
\* State.
VARIABLES
    \* call_moodle, called by get_course_completion
    cm_pc,        \* "post", "sleep", "returned", "raised", "done", "idle"
    cm_attempt,   \* the loop variable attempt
    cm_trace,     \* what the call did so far: attempts and sleeps, in order
    cm_ret,       \* what the call handed to its caller
    q_out,        \* what get_course_completion returned
    \* main, scope resolution
    sc_pc,        \* "start", "resolved", "aborted", "idle"
    sc_args,      \* the parsed command line and the text of the courses file
    sc_server,    \* what core_course_get_courses_by_field answers
    sc_courses,   \* the resolved course list
    \* main, pool and workbook
    pc,           \* "submit", "collect", "done", "aborted", "idle"
    courses,      \* the resolved course list the pool runs over
    max_threads,  \* the pool's width
    task,         \* per course: "new", "queued" (submitted, line 136 not yet
                  \* reached), then where its worker is ("contents", "users",
                  \* "users_failed", "rows"), "finished", "consumed"
    locals,       \* per course: activity_columns and users of the running task
    fut,          \* per course: what its future holds once finished
    order,        \* the courses in the order main consumed their futures
    consolidated_all,
    enrollment_all,
    per_course_results,
    log,          \* the lines printed
    workbook      \* the saved workbook

callVars == <<cm_pc, cm_attempt, cm_trace, cm_ret, q_out>>
scopeVars == <<sc_pc, sc_args, sc_server, sc_courses>>
poolVars == <<pc, courses, max_threads, task, locals, fut, order, consolidated_all,
              enrollment_all, per_course_results, log, workbook>>
vars == <<callVars, scopeVars, poolVars>>

EmptyBody == [isdict |-> FALSE, exception |-> FALSE, cs |-> "absent", completed |-> "None"]
NoRet == [ok |-> FALSE, err |-> "none", data |-> EmptyBody]
NoWorkbook == [saved |-> FALSE, consolidated |-> <<>>, sheets |-> <<>>, enrollments |-> <<>>]

CallIdle ==
    /\ cm_pc = "idle" /\ cm_attempt = 0 /\ cm_trace = <<>>
    /\ cm_ret = NoRet /\ q_out = <<0, <<>>>>
ScopeIdle ==
    /\ sc_pc = "idle" /\ sc_args = <<>> /\ sc_server = <<>> /\ sc_courses = <<>>
PoolIdle ==
    /\ pc = "idle" /\ courses = <<>> /\ max_threads = 1 /\ task = <<>> /\ locals = <<>>
    /\ fut = <<>> /\ order = <<>> /\ consolidated_all = <<>> /\ enrollment_all = <<>>
    /\ per_course_results = <<>> /\ log = {} /\ workbook = NoWorkbook

\* ------------------------------------------------------------------------
\* call_moodle (lines 34-56) called from get_course_completion (lines 83-92).

\* The JSON bodies core_completion_get_course_completion_status can answer
\* with: a non-dict, a dict carrying "exception", and dicts with or without
\* "completionstatus" (null, or a dict with or without "completed").
CompletionBodies ==
    {[isdict |-> FALSE, exception |-> FALSE, cs |-> "absent", completed |-> "None"]}
    \cup {[isdict |-> TRUE, exception |-> TRUE, cs |-> "absent", completed |-> "None"]}
    \cup {[isdict |-> TRUE, exception |-> FALSE, cs |-> c, completed |-> "None"] :
             c \in {"absent", "null"}}
    \cup {[isdict |-> TRUE, exception |-> FALSE, cs |-> "dict", completed |-> v] :
             v \in {"True", "False", "None", "1", "0"}}

\* One HTTP exchange: a transport fault (requests.post raises), a non-2xx
\* status (raise_for_status raises), a body that is not JSON (r.json()
\* raises), or a parsed body.
Responses ==
    {[fault |-> f, body |-> EmptyBody] : f \in {"network", "http", "json"}}
    \cup {[fault |-> "none", body |-> b] : b \in CompletionBodies}

\* Lines 46-51: the exception one attempt ends with, "none" if it returns.
AttemptError(resp) ==
    IF resp.fault # "none" THEN resp.fault
    ELSE IF resp.body.isdict /\ resp.body.exception THEN "moodle"
    ELSE "none"

\* Line 53: the except clause re-raises on the last attempt.
LastAttempt(attempt) == attempt = RETRY_COUNT

\* A wait of the base delay whatever the attempt: what line 55 would do
\* without its factor.
BackoffDelayFlat(attempt) == RETRY_SLEEP_TENTHS

\* Line 55: time.sleep(RETRY_SLEEP_SECONDS * attempt), in tenths of a second.
BackoffDelay(attempt) == RETRY_SLEEP_TENTHS * attempt

\* get_course_completion with a fallback of (0, "Incomplete"): what lines
\* 90-92 would do if the fallback reused the not-completed label.
get_course_completion_bug(ret) ==
    IF ret.ok /\ ret.data.isdict /\ ret.data.cs = "dict"
    THEN IF Truthy(ret.data.completed) THEN <<100, S_Completed>> ELSE <<0, S_Incomplete>>
    ELSE <<0, S_Incomplete>>

\* Lines 87-92 of get_course_completion, given how call_moodle ended.  A
\* "completionstatus" of null makes .get raise AttributeError, which the
\* except clause swallows.
get_course_completion(ret) ==
    IF ret.ok /\ ret.data.isdict /\ ret.data.cs # "absent"
    THEN IF ret.data.cs = "dict"
         THEN IF Truthy(ret.data.completed) THEN <<100, S_Completed>>
              ELSE <<0, S_Incomplete>>
         ELSE <<0, S_NA>>
    ELSE <<0, S_NA>>

InitCall ==
    /\ cm_pc = "post" /\ cm_attempt = 1 /\ cm_trace = <<>>
    /\ cm_ret = NoRet /\ q_out = <<0, <<>>>>
    /\ ScopeIdle /\ PoolIdle

\* One pass of the loop body up to the return or the except clause's choice.
Attempt ==
    /\ cm_pc = "post"
    /\ \E resp \in Responses :
        LET e == AttemptError(resp) IN
        /\ cm_trace' = Append(cm_trace,
               [ev |-> "attempt", n |-> cm_attempt, err |-> e, body |-> resp.body, dur |-> 0])
        /\ IF e = "none"
           THEN /\ cm_pc' = "returned"
                /\ cm_ret' = [ok |-> TRUE, err |-> "none", data |-> resp.body]
           ELSE IF LastAttempt(cm_attempt)
           THEN /\ cm_pc' = "raised"
                /\ cm_ret' = [ok |-> FALSE, err |-> e, data |-> EmptyBody]
           ELSE /\ cm_pc' = "sleep"
                /\ cm_ret' = cm_ret
    /\ UNCHANGED <<cm_attempt, q_out, scopeVars, poolVars>>

\* Line 55 and the loop's next iteration.
Sleep ==
    /\ cm_pc = "sleep"
    /\ cm_trace' = Append(cm_trace,
           [ev |-> "sleep", n |-> cm_attempt, err |-> "none", body |-> EmptyBody,
            dur |-> BackoffDelay(cm_attempt)])
    /\ cm_attempt' = cm_attempt + 1
    /\ cm_pc' = "post"
    /\ UNCHANGED <<cm_ret, q_out, scopeVars, poolVars>>

\* get_course_completion takes over where call_moodle returned or raised.
QueryFinish ==
    /\ cm_pc \in {"returned", "raised"}
    /\ q_out' = get_course_completion(cm_ret)
    /\ cm_pc' = "done"
    /\ UNCHANGED <<cm_attempt, cm_trace, cm_ret, scopeVars, poolVars>>

NextCall == Attempt \/ Sleep \/ QueryFinish

SpecCall == InitCall /\ [][NextCall]_vars

\* The attempts of the call so far, and the last thing it did.
CallAttempts == SelectSeq(cm_trace, LAMBDA e : e.ev = "attempt")
CallLast == cm_trace[Len(cm_trace)]

\* C2: call_moodle makes at most 3 attempts, numbered 1, 2, 3; a successful
\* attempt is the last thing the call does and its data is what the caller
\* gets; attempt k+1 comes right after a wait of k times the base delay,
\* which comes right after the failure of attempt k (so k is 1 or 2 and no
\* wait follows attempt 3); a call that raised made 3 failing attempts,
\* raised the failure of the third and returned no value.
C2_CallMoodleRetries ==
    /\ Len(CallAttempts) <= 3
    /\ \A j \in 1..Len(CallAttempts) : CallAttempts[j].n = j
    /\ \A i \in 1..Len(cm_trace) :
        LET e == cm_trace[i] IN
        /\ (e.ev = "attempt" /\ e.err = "none") =>
              /\ i = Len(cm_trace)
              /\ cm_pc \in {"returned", "done"}
              /\ cm_ret = [ok |-> TRUE, err |-> "none", data |-> e.body]
        /\ (e.ev = "attempt" /\ e.n > 1) =>
              /\ i >= 3
              /\ cm_trace[i - 1].ev = "sleep"
              /\ cm_trace[i - 1].dur = (e.n - 1) * 15
              /\ cm_trace[i - 2].ev = "attempt"
              /\ cm_trace[i - 2].n = e.n - 1
              /\ cm_trace[i - 2].err # "none"
        /\ e.ev = "sleep" =>
              /\ i >= 2
              /\ cm_trace[i - 1].ev = "attempt"
              /\ cm_trace[i - 1].err # "none"
              /\ cm_trace[i - 1].n \in {1, 2}
    /\ cm_ret.ok =>
          /\ cm_trace # <<>>
          /\ CallLast.ev = "attempt" /\ CallLast.err = "none"
    /\ (cm_pc = "raised" \/ (cm_pc = "done" /\ ~cm_ret.ok)) =>
          /\ Len(CallAttempts) = 3
          /\ \A j \in 1..3 : CallAttempts[j].err # "none"
          /\ CallLast.ev = "attempt" /\ CallLast.n = 3
          /\ cm_ret.err = CallLast.err
          /\ ~cm_ret.ok

\* A call that failed twice, waited twice and returned the third attempt's data.
C2_Witness ==
    /\ cm_pc = "returned"
    /\ Len(cm_trace) = 5
    /\ cm_trace[2].ev = "sleep" /\ cm_trace[4].ev = "sleep"

\* C5: when every attempt of the remote call failed, get_course_completion
\* returns exactly (0, "N/A"); when the call returned a dict whose
\* "completionstatus" is a dict, it returns (100, "Completed") if "completed"
\* is truthy and (0, "Incomplete") otherwise; so "Incomplete" is never the
\* label of a failed retrieval and "N/A" never the label of a retrieved status.
C5_CourseCompletionFallback ==
    cm_pc = "done" =>
        LET failed == CallLast.ev = "attempt" /\ CallLast.err # "none"
            body == CallLast.body
            carries == ~failed /\ body.isdict /\ body.cs = "dict"
        IN  /\ failed => q_out = <<0, <<"N", "/", "A">>>>
            /\ carries =>
                  q_out = IF body.completed \in {"True", "1"}
                          THEN <<100, <<"C","o","m","p","l","e","t","e","d">>>>
                          ELSE <<0, <<"I","n","c","o","m","p","l","e","t","e">>>>
            /\ q_out[2] = <<"I","n","c","o","m","p","l","e","t","e">> => carries
            /\ q_out[2] = <<"N", "/", "A">> => ~carries
            /\ q_out[2] \in {S_Completed, S_Incomplete, S_NA}

\* The query answered (0, "N/A") after the call's third failure.
C5_Witness ==
    /\ cm_pc = "done"
    /\ Len(CallAttempts) = 3
    /\ CallLast.err # "none"
    /\ q_out = <<0, S_NA>>

\* ------------------------------------------------------------------------
\* main, scope resolution (lines 239-249) and get_all_courses (lines 58-68).

\* A list or None, as Python passes specific_courses around.
NoneList == [none |-> TRUE, items |-> <<>>]
SomeList(items) == [none |-> FALSE, items |-> items]

MapSeq(f(_), s) == [i \in 1..Len(s) |-> f(s[i])]

\* Lines 61-68: the courses kept, in the server's order.  `if specific_courses`
\* is false for None and for the empty list alike.
get_all_courses(server_courses, specific_courses) ==
    IF ~specific_courses.none /\ specific_courses.items # <<>>
    THEN LET specific_lower == Range(MapSeq(Lower, specific_courses.items))
         IN  SelectSeq(server_courses,
                 LAMBDA c : Str(c.id) \in specific_lower
                            \/ Lower(c.fullname) \in specific_lower)
    ELSE server_courses

\* Line 241, open() in text mode: "\r\n" and a lone "\r" are read as "\n".
RECURSIVE UniversalNewlines(_)
UniversalNewlines(text) ==
    IF text = <<>> THEN <<>>
    ELSE IF Head(text) = "\r"
    THEN <<"\n">> \o UniversalNewlines(IF Len(text) >= 2 /\ text[2] = "\n"
                                       THEN Tail(Tail(text)) ELSE Tail(text))
    ELSE <<Head(text)>> \o UniversalNewlines(Tail(text))

\* Line 242, `for line in f`: the lines of the text, each with its "\n"; the
\* last one has none when the text does not end with one.
RECURSIVE FileLines(_, _)
FileLines(text, line) ==
    IF text = <<>> THEN (IF line = <<>> THEN <<>> ELSE <<line>>)
    ELSE IF Head(text) = "\n" THEN <<Append(line, "\n")>> \o FileLines(Tail(text), <<>>)
    ELSE FileLines(Tail(text), Append(line, Head(text)))

\* Lines 240-242: the non-blank lines of the courses file, stripped.
ReadCoursesFile(args) ==
    IF args.has_file
    THEN SomeList(SelectSeq(MapSeq(Strip, FileLines(UniversalNewlines(args.text), <<>>)),
                            LAMBDA l : l # <<>>))
    ELSE NoneList

\* Lines 244-248: `if args.courseid` is false for an absent id and for 0.
ResolveCourses(args, server_courses) ==
    IF args.has_courseid /\ args.courseid # 0
    THEN get_all_courses(server_courses, SomeList(<<Str(args.courseid)>>))
    ELSE get_all_courses(server_courses, ReadCoursesFile(args))

\* Sequences over S of length at most n.
RECURSIVE SeqsUpTo(_, _)
SeqsUpTo(S, n) ==
    IF n = 0 THEN {<<>>}
    ELSE LET shorter == SeqsUpTo(S, n - 1)
         IN  shorter \cup {Append(q, x) : q \in shorter, x \in S}

Distinct(s, key(_)) == \A i, j \in 1..Len(s) : i # j => key(s[i]) # key(s[j])

RECURSIVE Flatten(_)
Flatten(ss) == IF ss = <<>> THEN <<>> ELSE Head(ss) \o Flatten(Tail(ss))

\* The courses file as text: lines ended by "\n" or "\r\n", blank or with
\* blanks and tabs around an entry, and a last line without its end.
ScopeFullNames == {<<"M">>, <<"m">>, <<"2">>}
ScopeLines == {<<"\n">>, <<" ", "\n">>, <<"1", "\n">>, <<"\t", "2", " ", "\r", "\n">>,
               <<"M", "\n">>, <<" ", "m", "\n">>, <<"z">>}
ScopeTexts == {Flatten(ls) : ls \in SeqsUpTo(ScopeLines, MaxLines)}
ScopeCourses ==
    {[id |-> i, fullname |-> f, shortname |-> <<"s">>] :
        i \in 1..MaxServerCourses, f \in ScopeFullNames}
CourseId(c) == c.id

\* The server's course list: each course once.
ScopeServerLists == {l \in SeqsUpTo(ScopeCourses, MaxServerCourses) : Distinct(l, CourseId)}

ScopeArgs ==
    {[has_courseid |-> FALSE, courseid |-> 0, has_file |-> FALSE, text |-> <<>>]}
    \cup {[has_courseid |-> FALSE, courseid |-> 0, has_file |-> TRUE, text |-> t] :
             t \in ScopeTexts}
    \cup {[has_courseid |-> TRUE, courseid |-> n, has_file |-> FALSE, text |-> <<>>] :
             n \in 0..(MaxServerCourses + 1)}
    \cup {[has_courseid |-> TRUE, courseid |-> n, has_file |-> TRUE, text |-> t] :
             n \in 0..(MaxServerCourses + 1), t \in ScopeTexts}

InitScope ==
    /\ sc_pc = "start"
    /\ sc_args \in ScopeArgs
    /\ sc_server \in {[ok |-> FALSE, courses |-> <<>>]}
                     \cup {[ok |-> TRUE, courses |-> l] : l \in ScopeServerLists}
    /\ sc_courses = <<>>
    /\ CallIdle /\ PoolIdle

\* Lines 239-249 when the course list call returns.
Resolve ==
    /\ sc_pc = "start"
    /\ sc_server.ok
    /\ sc_courses' = ResolveCourses(sc_args, sc_server.courses)
    /\ sc_pc' = "resolved"
    /\ UNCHANGED <<sc_args, sc_server, callVars, poolVars>>

\* Line 59 raises after the retries: nothing in main catches it.
ResolveAborts ==
    /\ sc_pc = "start"
    /\ ~sc_server.ok
    /\ sc_pc' = "aborted"
    /\ UNCHANGED <<sc_args, sc_server, sc_courses, callVars, poolVars>>

NextScope == Resolve \/ ResolveAborts

SpecScope == InitScope /\ [][NextScope]_vars

\* The filter list read from the courses file.
ScopeEntries == ReadCoursesFile(sc_args).items

\* C7: with a courses file and no course id, the resolved courses are exactly
\* the server's courses whose id as a string equals an entry of the file or
\* whose full name equals one ignoring case, for every list of entries, the
\* empty one included.
C7_FileFilterExact ==
    (sc_pc = "resolved" /\ sc_args.has_file /\ ~sc_args.has_courseid) =>
        sc_courses =
            SelectSeq(sc_server.courses,
                LAMBDA c : \E k \in 1..Len(ScopeEntries) :
                    \/ Str(c.id) = ScopeEntries[k]
                    \/ Lower(c.fullname) = Lower(ScopeEntries[k]))

\* C8: when a course id n is given, with or without a courses file, only the
\* course with id n is processed: at most one course and none with another id.
C8_CourseIdWins ==
    (sc_pc = "resolved" /\ sc_args.has_courseid) =>
        /\ Len(sc_courses) <= 1
        /\ \A k \in 1..Len(sc_courses) : sc_courses[k].id = sc_args.courseid

\* ------------------------------------------------------------------------
\* Domain queries used by the per-course aggregator.

\* f of the value of x, with x evaluated once however often f uses it.
With(x, f(_)) == CHOOSE r \in {f(v) : v \in {x}} : TRUE

\* A Python dict as the sequence of its items in insertion order: a key set
\* again keeps its place and takes the new value.
DictKeys(d) == {d[i][1] : i \in 1..Len(d)}
DictPut(dict, key, value) ==
    With(<<dict, key, value>>,
         LAMBDA a :
             IF a[2] \in DictKeys(a[1])
             THEN LET at == CHOOSE i \in 1..Len(a[1]) : a[1][i][1] = a[2]
                  IN  SubSeq(a[1], 1, at - 1) \o <<<<a[2], a[3]>>>>
                          \o SubSeq(a[1], at + 1, Len(a[1]))
             ELSE Append(a[1], <<a[2], a[3]>>))
DictGet(d, k, default) ==
    IF k \in DictKeys(d) THEN d[CHOOSE i \in 1..Len(d) : d[i][1] = k][2] ELSE default

\* d.update(e), and {**d, **e}
RECURSIVE DictUpdate(_, _)
DictUpdate(d, items) ==
    With(items,
         LAMBDA e : IF e = <<>> THEN d
                    ELSE DictUpdate(DictPut(d, Head(e)[1], Head(e)[2]), Tail(e)))

\* None where the program uses it as a key or tests it with `or`.
PyNone == <<"None">>

\* Lines 75-81: the visible modules not being deleted, keyed by module id.
RECURSIVE CollectActivities(_, _)
CollectActivities(mods, activities) ==
    IF mods = <<>> THEN activities
    ELSE LET mod == Head(mods) IN
         CollectActivities(Tail(mods),
             IF mod.uservisible /\ ~mod.deletioninprogress
             THEN DictPut(activities, mod.id, [name |-> mod.name, modname |-> mod.modname])
             ELSE activities)
get_course_activities(sections) == CollectActivities(Flatten(sections), <<>>)

\* Lines 101-107.
StatusLabel(state) ==
    IF state \in {1, 2} THEN S_Completed
    ELSE IF state = 3 THEN S_Failed
    ELSE S_Incomplete

\* Lines 95-111: cmid -> label; empty when the call failed.
RECURSIVE CollectStatuses(_, _)
CollectStatuses(statuses, out) ==
    IF statuses = <<>> THEN out
    ELSE CollectStatuses(Tail(statuses),
             DictPut(out, Head(statuses).cmid, StatusLabel(Head(statuses).state)))
get_activity_completion(ret) == IF ret.ok THEN CollectStatuses(ret.statuses, <<>>) ELSE <<>>

\* The JSON values "lastaccess" can carry, and the list or null of "roles".
JNull == [t |-> "null", v |-> 0]
JInt(n) == [t |-> "int", v |-> n]
JStr(s) == [t |-> "str", v |-> s]
JList(items) == [null |-> FALSE, items |-> items]
JNoList == [null |-> TRUE, items |-> <<>>]

\* Lines 113-117: the names of the user's roles joined by ", "; a role
\* without "name" gives str of its "roleid", or "" when it has neither.  A
\* "roles" of null makes the iteration raise, and the except clause
\* returns "".
RoleName(r) ==
    DictGet(r, k_name, IF k_roleid \in DictKeys(r) THEN Str(DictGet(r, k_roleid, 0)) ELSE <<>>)
role_names(user) ==
    LET roles == DictGet(user, k_roles, JList(<<>>))
    IN  IF roles.null THEN <<>> ELSE Join(<<",", " ">>, MapSeq(RoleName, roles.items))

\* Line 121: datetime.fromtimestamp(ts).strftime("%Y-%m-%d %H:%M:%S"), the
\* instant ts written in the host's time zone.
FormatTime(ts) == [strftime |-> ts]

\* Lines 119-121: "" for an absent, null, zero or empty "lastaccess", the
\* formatted instant for a number; fromtimestamp raises TypeError for a
\* non-empty string.
last_access_str(user) ==
    LET ts == DictGet(user, k_lastaccess, JNull)
    IN  IF ts.t = "null" THEN [raised |-> FALSE, value |-> <<>>]
        ELSE IF ts.t = "int"
        THEN [raised |-> FALSE, value |-> IF ts.v = 0 THEN <<>> ELSE FormatTime(ts.v)]
        ELSE [raised |-> ts.v # <<>>, value |-> <<>>]

\* Lines 123-128: custom field values keyed by short name, or by name when
\* the short name is absent or empty, or by None when both are.
CustomFieldKey(f) ==
    LET shortname == DictGet(f, k_shortname, PyNone)
    IN  IF shortname = PyNone \/ shortname = <<>> THEN DictGet(f, k_name, PyNone)
        ELSE shortname
RECURSIVE CollectCustomFields(_, _)
CollectCustomFields(fields, d) ==
    IF fields = <<>> THEN d
    ELSE CollectCustomFields(Tail(fields),
             DictPut(d, CustomFieldKey(Head(fields)), DictGet(Head(fields), k_value, <<>>)))
flatten_custom_fields(user) == CollectCustomFields(DictGet(user, k_customfields, <<>>), <<>>)

\* ------------------------------------------------------------------------
\* process_one_course (lines 130-213).

\* Line 141: f"{meta['modname'].capitalize()}: {meta['name']}"
ColumnName(meta) == Capitalize(meta.modname) \o <<":", " ">> \o meta.name

\* Lines 139-142: (cmid, column name) per activity, in the dict's order.
ActivityColumns(activities) ==
    [k \in 1..Len(activities) |-> <<activities[k][1], ColumnName(activities[k][2])>>]

ColumnsOf(activity_columns) == [k \in 1..Len(activity_columns) |-> activity_columns[k][2]]

\* Lines 182-183: the activity cells of course_row, a dict keyed by column name.
RECURSIVE ActivityCells(_, _, _)
ActivityCells(activity_columns, a_map, row) ==
    IF activity_columns = <<>> THEN row
    ELSE ActivityCells(Tail(activity_columns), a_map,
             DictPut(row, Head(activity_columns)[2],
                     DictGet(a_map, Head(activity_columns)[1], S_Incomplete)))

Msg(kind, cname) == [kind |-> kind, cname |-> cname]

\* What a finished task holds: an exception, or the four values of line 213.
\* activity_columns and a_maps are the function's locals, kept to state
\* properties of the rows against.
TaskRaised ==
    [raised |-> TRUE, users_failed |-> FALSE,
     per_course_rows |-> <<>>, consolidated_rows |-> <<>>, enrollment_rows |-> <<>>,
     act_cols |-> <<>>, activity_columns |-> <<>>, a_maps |-> <<>>]

\* The users call raised, yet a placeholder row is returned: what lines
\* 146-148 would do without the early empty return.
UsersFailedKeepsGoing(course, activity_columns) ==
    [raised |-> FALSE, users_failed |-> TRUE,
     per_course_rows |-> <<>>,
     consolidated_rows |->
         <<<<0, <<>>, <<>>, <<>>, course.id, course.fullname, <<>>, <<>>, 0, S_NA>>>>,
     enrollment_rows |-> <<>>,
     act_cols |-> ColumnsOf(activity_columns),
     activity_columns |-> activity_columns, a_maps |-> <<>>]

\* Lines 146-148: the enrolled-users call raised.
UsersFailed(course, activity_columns) ==
    [raised |-> FALSE, users_failed |-> TRUE,
     per_course_rows |-> <<>>, consolidated_rows |-> <<>>, enrollment_rows |-> <<>>,
     act_cols |-> ColumnsOf(activity_columns),
     activity_columns |-> activity_columns, a_maps |-> <<>>]

\* Lines 155-168: base_user, the user's columns and then the custom fields,
\* which replace a column of the same name.
BaseUser(u, last_access) ==
    DictUpdate(
        <<<<H_UserID, DictGet(u, k_id, PyNone)>>,
          <<H_FullName, DictGet(u, k_fullname, <<>>)>>,
          <<H_Username, DictGet(u, k_username, <<>>)>>,
          <<H_Email, DictGet(u, k_email, <<>>)>>,
          <<H_Department, DictGet(u, k_department, <<>>)>>,
          <<H_Institution, DictGet(u, k_institution, <<>>)>>,
          <<H_City, DictGet(u, k_city, <<>>)>>,
          <<H_Country, DictGet(u, k_country, <<>>)>>,
          <<H_LastAccess, last_access>>,
          <<H_Roles, role_names(u)>>>>,
        flatten_custom_fields(u))

\* Lines 174-184: course_row.  The course's columns come first, base_user is
\* spread over them, the completion columns and then the activity columns
\* are set last.
CourseRow(course, base_user, c_pct, c_status, activity_columns, a_map) ==
    ActivityCells(activity_columns, a_map,
        DictPut(DictPut(DictUpdate(<<<<H_CourseID, course.id>>,
                                     <<H_CourseName, course.fullname>>,
                                     <<H_CourseShortname, course.shortname>>>>,
                                   base_user),
                        H_CourseCompletionStatus, c_status),
                H_CompletionPct, c_pct))

\* Lines 154-211, one user: the three rows, or the TypeError of
\* last_access_str, which is raised before the user's completion calls.
UserRows(course, u, per, activity_columns) ==
    LET last_access == last_access_str(u)
        uid == DictGet(u, k_id, PyNone)
        c == get_course_completion(per.cc)
        a_map == get_activity_completion(per.ac)
    IN  IF last_access.raised
        THEN [raised |-> TRUE, course_row |-> <<>>, consolidated_row |-> <<>>,
              enrollment_row |-> <<>>, a_map |-> <<>>]
        ELSE [raised |-> FALSE,
              course_row |-> CourseRow(course, BaseUser(u, last_access.value), c[1], c[2],
                                       activity_columns, a_map),
              consolidated_row |->
                  <<uid, DictGet(u, k_fullname, <<>>), <<>>, DictGet(u, k_email, <<>>),
                    course.id, course.fullname, last_access.value, role_names(u),
                    c[1], c[2]>>,
              enrollment_row |->
                  <<<<H_UserID, uid>>,
                    <<H_FullName, DictGet(u, k_fullname, <<>>)>>,
                    <<H_Username, DictGet(u, k_username, <<>>)>>,
                    <<H_Email, DictGet(u, k_email, <<>>)>>,
                    <<H_CourseID, course.id>>,
                    <<H_CourseName, course.fullname>>,
                    <<H_CourseShortname, course.shortname>>,
                    <<H_Roles, role_names(u)>>,
                    <<H_LastAccess, last_access.value>>>>,
              a_map |-> a_map]

\* Lines 150-213: the loop over the users, which appends each user's rows,
\* and the return.
RECURSIVE LoopUsers(_, _, _, _, _)
LoopUsers(course, activity_columns, users, per, out) ==
    IF users = <<>> THEN out
    ELSE With(UserRows(course, Head(users), Head(per), activity_columns),
              LAMBDA r :
                  IF r.raised THEN TaskRaised
                  ELSE LoopUsers(course, activity_columns, Tail(users), Tail(per),
                           [out EXCEPT
                               !.per_course_rows = Append(@, r.course_row),
                               !.consolidated_rows = Append(@, r.consolidated_row),
                               !.enrollment_rows = Append(@, r.enrollment_row),
                               !.a_maps = Append(@, r.a_map)]))
ProcessUsers(course, activity_columns, users, per) ==
    LoopUsers(course, activity_columns, users, per,
        [raised |-> FALSE, users_failed |-> FALSE,
         per_course_rows |-> <<>>, consolidated_rows |-> <<>>, enrollment_rows |-> <<>>,
         act_cols |-> ColumnsOf(activity_columns),
         activity_columns |-> activity_columns, a_maps |-> <<>>])

\* The function on the answers srv of its calls.  get_course_activities is
\* called outside the try of lines 144-148, so its failure is raised.
process_one_course(course, srv) ==
    IF ~srv.contents.ok THEN TaskRaised
    ELSE With(ActivityColumns(get_course_activities(srv.contents.sections)),
              LAMBDA activity_columns :
                  IF ~srv.users.ok THEN UsersFailed(course, activity_columns)
                  ELSE ProcessUsers(course, activity_columns, srv.users.users, srv.per))

\* ------------------------------------------------------------------------
\* main: the pool (lines 251-266) and the workbook (lines 268-306).

\* Line 29: re.sub(r'[^A-Za-z0-9]', '', name); line 32: the first 31 characters.
IsAlnum(ch) == IsUpper(ch) \/ IsLower(ch) \/ IsDigit(ch)
sanitize_sheet_name(name) ==
    LET cleaned == SelectSeq(name, IsAlnum)
    IN  SubSeq(cleaned, 1, IF Len(cleaned) < SHEET_NAME_MAX THEN Len(cleaned) ELSE SHEET_NAME_MAX)

\* Line 284: sanitize_sheet_name(cshort) or "Course"
SheetTitle(cshort) ==
    IF sanitize_sheet_name(cshort) # <<>> THEN sanitize_sheet_name(cshort) ELSE S_Course

\* Line 283: sorted(per_course_results, key=lambda x: x[0].lower()), a stable
\* sort: an element goes behind every element whose key is not greater.
RECURSIVE InsertByKey(_, _)
InsertByKey(sorted, x) ==
    IF sorted = <<>> THEN <<x>>
    ELSE IF StrLess(Lower(x.cshort), Lower(Head(sorted).cshort)) THEN <<x>> \o sorted
    ELSE <<Head(sorted)>> \o InsertByKey(Tail(sorted), x)
RECURSIVE SortedByShortName(_)
SortedByShortName(results) ==
    IF results = <<>> THEN <<>>
    ELSE InsertByKey(SortedByShortName(SubSeq(results, 1, Len(results) - 1)),
                     results[Len(results)])

\* Lines 286-291, 299.
BaseHeaders ==
    <<H_CourseID, H_CourseName, H_CourseShortname, H_UserID, H_FullName, H_Username,
      H_Email, H_Department, H_Institution, H_City, H_Country, H_LastAccess, H_Roles>>
TrailingHeaders == <<H_CompletionPct, H_CourseCompletionStatus>>
EnrollmentHeaders ==
    <<H_UserID, H_FullName, H_Username, H_Email, H_CourseID, H_CourseName,
      H_CourseShortname, H_Roles, H_LastAccess>>

\* Lines 294, 302: [r.get(h, "") for h in headers]
RowCells(row, headers) ==
    With(<<row, headers>>,
         LAMBDA a : [k \in 1..Len(a[2]) |-> DictGet(a[1], a[2][k], <<>>)])

\* Lines 284-294: one per-course sheet.
CourseSheet(result) ==
    With(result,
         LAMBDA res :
             With(BaseHeaders \o res.act_cols \o TrailingHeaders,
                  LAMBDA headers :
                      [title |-> SheetTitle(res.cshort),
                       headers |-> headers,
                       rows |-> [j \in 1..Len(res.rows) |-> RowCells(res.rows[j], headers)]]))

\* Lines 270-305.
BuildWorkbook(consolidated, results, enrollments) ==
    [saved |-> TRUE,
     consolidated |-> consolidated,
     sheets |-> With(SortedByShortName(results),
                     LAMBDA sorted : [s \in 1..Len(sorted) |-> CourseSheet(sorted[s])]),
     enrollments |-> [j \in 1..Len(enrollments) |->
                         RowCells(enrollments[j], EnrollmentHeaders)]]

\* The loop body of lines 256-264 without its try/except: a task's
\* exception, re-raised by fut.result(), leaves the loop.
CollectUncaught(acc, course, res) ==
    IF res.raised
    THEN [acc EXCEPT !.escaped = TRUE]
    ELSE [acc EXCEPT
            !.per_course_results =
                Append(@, [cshort |-> course.shortname, rows |-> res.per_course_rows,
                           act_cols |-> res.act_cols]),
            !.consolidated_all = @ \o res.consolidated_rows,
            !.enrollment_all = @ \o res.enrollment_rows,
            !.log = @ \cup {Msg("done", course.fullname)}]

\* Lines 256-266: what main does with one completed future.  fut.result()
\* re-raises the task's exception inside the try; `escaped` says whether an
\* exception leaves the loop body.
CollectResult(acc, course, res) ==
    IF res.raised
    THEN [acc EXCEPT !.log = @ \cup {Msg("error", course.fullname)}]
    ELSE [acc EXCEPT
            !.per_course_results =
                Append(@, [cshort |-> course.shortname, rows |-> res.per_course_rows,
                           act_cols |-> res.act_cols]),
            !.consolidated_all = @ \o res.consolidated_rows,
            !.enrollment_all = @ \o res.enrollment_rows,
            !.log = @ \cup {Msg("done", course.fullname)}]

\* The answers of the server to one task's calls, each as call_moodle hands
\* it on after its retries.
CallFailed == [ok |-> FALSE, err |-> "network", data |-> EmptyBody]
CallData(body) == [ok |-> TRUE, err |-> "none", data |-> body]
CompletionData(v) == CallData([isdict |-> TRUE, exception |-> FALSE, cs |-> "dict", completed |-> v])
NoCompletionData == CallData([isdict |-> TRUE, exception |-> FALSE, cs |-> "absent", completed |-> "None"])

Module(i, name, vis, del) ==
    [id |-> i, name |-> name, modname |-> <<"q", "U">>, uservisible |-> vis,
     deletioninprogress |-> del]

\* Module lists with ids 1..n: modules named x, visible or hidden, being
\* deleted or not, and visible modules named y.  The first module makes a
\* section of its own.
ModuleKinds ==
    {<<<<"x">>, v, d>> : v \in BOOLEAN, d \in BOOLEAN} \cup {<<<<"y">>, TRUE, FALSE>>}
RichModuleLists ==
    UNION {{[i \in 1..n |-> Module(i, ks[i][1], ks[i][2], ks[i][3])] :
               ks \in [1..n -> ModuleKinds]} : n \in 0..MaxMods}
Sectioned(mods) == IF Len(mods) <= 1 THEN <<mods>> ELSE <<<<Head(mods)>>, Tail(mods)>>

\* The users core_enrol_get_enrolled_users answers with; user j has id j.
\* A plain user; a user with an id only; a user whose custom fields are
\* named like columns of the row, by short name, by name and by neither,
\* with a zero last access and roles with and without a name; a user whose
\* last access is not a number.
PlainUser(j) ==
    <<<<k_id, j>>, <<k_fullname, <<"U", Digits[j + 1]>>>>, <<k_username, <<"n">>>>,
      <<k_email, <<"e">>>>, <<k_lastaccess, JInt(5)>>,
      <<k_roles, JList(<<<<<<k_name, <<"S">>>>>>>>)>>>>
BareUser(j) == <<<<k_id, j>>>>
CustomUser(j) ==
    <<<<k_id, j>>, <<k_lastaccess, JInt(0)>>,
      <<k_roles, JList(<<<<<<k_roleid, 5>>>>, <<<<k_name, <<"T">>>>>>, <<>>>>)>>,
      <<k_customfields,
        <<<<<<k_shortname, H_UserID>>, <<k_value, 7>>>>,
          <<<<k_shortname, <<>>>>, <<k_name, H_CourseID>>, <<k_value, 99>>>>,
          <<<<k_value, 3>>>>>>>>>>
BadAccessUser(j) == <<<<k_id, j>>, <<k_lastaccess, JStr(<<"x">>)>>, <<k_roles, JNoList>>>>
UserOfKind(kind, j) ==
    CASE kind = "plain" -> PlainUser(j)
      [] kind = "bare" -> BareUser(j)
      [] kind = "custom" -> CustomUser(j)
      [] kind = "badaccess" -> BadAccessUser(j)
UserKinds == {"plain", "bare", "custom", "badaccess"}

\* One course alone: every shape of module list, users of every kind, and
\* for plain users every answer of the course-completion call and every
\* answer of the activity-completion call.
RichPerUser ==
    {[cc |-> c, ac |-> [ok |-> TRUE, statuses |-> <<[cmid |-> 1, state |-> 1]>>]] :
        c \in {CallFailed, CompletionData("True"), CompletionData("False"), NoCompletionData}}
    \cup {[cc |-> CompletionData("True"), ac |-> a] :
        a \in {[ok |-> FALSE, statuses |-> <<>>]}
              \cup {[ok |-> TRUE, statuses |-> st] :
                      st \in SeqsUpTo({[cmid |-> m, state |-> x] :
                                          m \in 1..MaxMods, x \in 0..3}, MaxStatuses)}}

\* Several courses: one visible module and plain users; the completion
\* calls return for the first users of a course and fail from some user on.
UserAnswered == [cc |-> CompletionData("True"),
                 ac |-> [ok |-> TRUE, statuses |-> <<[cmid |-> 1, state |-> 1]>>]]
UserUnanswered == [cc |-> CallFailed, ac |-> [ok |-> FALSE, statuses |-> <<>>]]
LeanPerUserLists(n) ==
    {[j \in 1..n |-> IF j <= k THEN UserAnswered ELSE UserUnanswered] : k \in 0..n}

ContentsFailed == [ok |-> FALSE, sections |-> <<>>]
ContentsData(mods) == [ok |-> TRUE, sections |-> Sectioned(mods)]
UsersCallFailed == [ok |-> FALSE, users |-> <<>>, plain |-> TRUE]
UsersData(kinds) ==
    [ok |-> TRUE, users |-> [j \in 1..Len(kinds) |-> UserOfKind(kinds[j], j)],
     plain |-> \A j \in 1..Len(kinds) : kinds[j] = "plain"]

\* The module lists, user lists and per-user answers a task's calls draw from.
LeanModuleLists == {<<Module(1, <<"x">>, TRUE, FALSE)>>}
ModuleListsFor(cs) == IF Len(cs) = 1 THEN RichModuleLists ELSE LeanModuleLists
UserListsFor(cs) ==
    IF Len(cs) = 1 THEN {UsersData(kinds) : kinds \in SeqsUpTo(UserKinds, MaxUsers)}
    ELSE {UsersData([j \in 1..n |-> "plain"]) : n \in 0..MaxUsers}
PerUserListsFor(cs, users) ==
    IF Len(cs) # 1 THEN LeanPerUserLists(Len(users.users))
    ELSE IF users.plain THEN [1..Len(users.users) -> RichPerUser]
    ELSE [1..Len(users.users) -> {UserAnswered, UserUnanswered}]

\* Course lists as the server hands them out: ids and short names are unique,
\* and short names may differ in case only.
PoolShortNames == {<<"-">>, <<"A">>, <<"a">>}
PoolCourses(n) ==
    {[i \in 1..n |-> [id |-> i, fullname |-> <<"M">> \o Str(i), shortname |-> sn[i]]] :
        sn \in {f \in [1..n -> PoolShortNames] : \A i, j \in 1..n : i # j => f[i] # f[j]}}

\* Line 237: max(1, args.threads), for --threads 0, 1, 2 and the default.
Max(a, b) == IF a > b THEN a ELSE b
ThreadArgs == {0, 1, 2, DEFAULT_MAX_THREADS}

NoLocals == [contents |-> ContentsFailed, users |-> UsersCallFailed]

InitMain(lengths) ==
    /\ pc = "submit"
    /\ courses \in UNION {PoolCourses(n) : n \in lengths}
    /\ max_threads \in {Max(1, t) : t \in ThreadArgs}
    /\ task = [i \in 1..Len(courses) |-> "new"]
    /\ locals = [i \in 1..Len(courses) |-> NoLocals]
    /\ fut = [i \in 1..Len(courses) |-> TaskRaised]
    /\ order = <<>>
    /\ consolidated_all = <<>> /\ enrollment_all = <<>> /\ per_course_results = <<>>
    /\ log = {}
    /\ workbook = NoWorkbook
    /\ CallIdle /\ ScopeIdle

\* Line 254, one pass of the comprehension: ex.submit hands the next course's
\* task to the pool, which may run it while the later ones are submitted.
Submit(i) ==
    /\ pc = "submit"
    /\ task[i] = "new"
    /\ \A j \in 1..(i - 1) : task[j] # "new"
    /\ task' = [task EXCEPT ![i] = "queued"]
    /\ UNCHANGED <<pc, courses, max_threads, locals, fut, order, consolidated_all,
                   enrollment_all, per_course_results, log, workbook, callVars, scopeVars>>

\* Line 255: every task is submitted, main turns to as_completed.
AwaitCompleted ==
    /\ pc = "submit"
    /\ \A i \in 1..Len(courses) : task[i] # "new"
    /\ pc' = "collect"
    /\ UNCHANGED <<courses, max_threads, task, locals, fut, order, consolidated_all,
                   enrollment_all, per_course_results, log, workbook, callVars, scopeVars>>

\* The tasks a worker is in: between line 136 and the task's end.
Running == {i \in 1..Len(courses) : task[i] \in {"contents", "users", "users_failed", "rows"}}

\* Task i reaches line 136 and prints the course, lines 131-136.  The pool
\* hands the tasks to its workers in submission order, one task per worker
\* and max_threads workers at most, but each worker gets to line 136 in its
\* own time: task i can print ahead of the tasks queued before it when
\* there is a worker for each of them, one for every task that is running,
\* and one for task i.
Start(i) ==
    LET queued_before == {j \in 1..(i - 1) : task[j] = "queued"}
    IN  /\ task[i] = "queued"
        /\ Cardinality(queued_before) + Cardinality(Running) < max_threads
        /\ task' = [task EXCEPT ![i] = "contents"]
        /\ log' = log \cup {Msg("processing", courses[i].fullname)}
        /\ UNCHANGED <<pc, courses, max_threads, locals, fut, order, consolidated_all,
                       enrollment_all, per_course_results, workbook, callVars, scopeVars>>

\* The task ends: its future holds res and its frame is gone.
Finish(i, res) ==
    /\ fut' = [fut EXCEPT ![i] = res]
    /\ task' = [task EXCEPT ![i] = "finished"]
    /\ locals' = [locals EXCEPT ![i] = NoLocals]

\* core_course_get_contents fails after its retries: the task raises.
ContentsFail(i) ==
    /\ task[i] = "contents"
    /\ \E res \in {process_one_course(courses[i],
                      [contents |-> ContentsFailed, users |-> UsersCallFailed,
                       per |-> <<>>])} :
           Finish(i, res)
    /\ UNCHANGED <<pc, courses, max_threads, order, consolidated_all, enrollment_all,
                   per_course_results, log, workbook, callVars, scopeVars>>

\* core_course_get_contents returns; the task goes on to line 145, the call
\* of core_enrol_get_enrolled_users.
ContentsAnswer(i) ==
    /\ task[i] = "contents"
    /\ \E m \in ModuleListsFor(courses) :
           locals' = [locals EXCEPT ![i].contents = ContentsData(m)]
    /\ task' = [task EXCEPT ![i] = "users"]
    /\ UNCHANGED <<pc, courses, max_threads, fut, order, consolidated_all, enrollment_all,
                   per_course_results, log, workbook, callVars, scopeVars>>

\* core_enrol_get_enrolled_users fails after its retries: line 147 prints
\* the failure; the task has still to return.
UsersFail(i) ==
    /\ task[i] = "users"
    /\ task' = [task EXCEPT ![i] = "users_failed"]
    /\ log' = log \cup {Msg("users_failed", courses[i].fullname)}
    /\ UNCHANGED <<pc, courses, max_threads, locals, fut, order, consolidated_all,
                   enrollment_all, per_course_results, workbook, callVars, scopeVars>>

\* Line 148: the task returns its four lists, the rows empty.
ReturnUsersFailed(i) ==
    /\ task[i] = "users_failed"
    /\ \E res \in {process_one_course(courses[i],
                      [contents |-> locals[i].contents, users |-> UsersCallFailed,
                       per |-> <<>>])} :
           Finish(i, res)
    /\ UNCHANGED <<pc, courses, max_threads, order, consolidated_all, enrollment_all,
                   per_course_results, log, workbook, callVars, scopeVars>>

\* core_enrol_get_enrolled_users returns; the task goes on to the loop over
\* the users.
UsersAnswer(i) ==
    /\ task[i] = "users"
    /\ \E us \in UserListsFor(courses) :
           locals' = [locals EXCEPT ![i].users = us]
    /\ task' = [task EXCEPT ![i] = "rows"]
    /\ UNCHANGED <<pc, courses, max_threads, fut, order, consolidated_all, enrollment_all,
                   per_course_results, log, workbook, callVars, scopeVars>>

\* Lines 154-213: each user's completion calls return or fail, and the task
\* returns its rows or raises.
Rows(i) ==
    /\ task[i] = "rows"
    /\ \E p \in PerUserListsFor(courses, locals[i].users) :
           \E res \in {process_one_course(courses[i],
                         [contents |-> locals[i].contents, users |-> locals[i].users,
                          per |-> p])} :
               Finish(i, res)
    /\ UNCHANGED <<pc, courses, max_threads, order, consolidated_all, enrollment_all,
                   per_course_results, log, workbook, callVars, scopeVars>>

\* Lines 255-266: as_completed hands main a finished future.
Consume(i) ==
    /\ pc = "collect"
    /\ task[i] = "finished"
    /\ \E acc \in {CollectResult(
                     [consolidated_all |-> consolidated_all,
                      enrollment_all |-> enrollment_all,
                      per_course_results |-> per_course_results, log |-> log,
                      escaped |-> FALSE],
                     courses[i], fut[i])} :
           /\ consolidated_all' = acc.consolidated_all
           /\ enrollment_all' = acc.enrollment_all
           /\ per_course_results' = acc.per_course_results
           /\ log' = acc.log
           /\ pc' = IF acc.escaped THEN "aborted" ELSE pc
    /\ task' = [task EXCEPT ![i] = "consumed"]
    /\ order' = Append(order, i)
    /\ UNCHANGED <<courses, max_threads, locals, fut, workbook, callVars, scopeVars>>

\* Lines 268-306: every future consumed, the workbook is built and saved.
WriteWorkbook ==
    /\ pc = "collect"
    /\ \A i \in 1..Len(courses) : task[i] = "consumed"
    /\ workbook' = BuildWorkbook(consolidated_all, per_course_results, enrollment_all)
    /\ pc' = "done"
    /\ UNCHANGED <<courses, max_threads, task, locals, fut, order, consolidated_all,
                   enrollment_all, per_course_results, log, callVars, scopeVars>>

Next ==
    \/ \E i \in 1..Len(courses) : Submit(i)
    \/ AwaitCompleted
    \/ \E i \in 1..Len(courses) : Start(i)
    \/ \E i \in 1..Len(courses) : ContentsFail(i)
    \/ \E i \in 1..Len(courses) : ContentsAnswer(i)
    \/ \E i \in 1..Len(courses) : UsersFail(i)
    \/ \E i \in 1..Len(courses) : ReturnUsersFailed(i)
    \/ \E i \in 1..Len(courses) : UsersAnswer(i)
    \/ \E i \in 1..Len(courses) : Rows(i)
    \/ \E i \in 1..Len(courses) : Consume(i)
    \/ WriteWorkbook

\* One course, every shape of answer.
SpecCourse == InitMain({1}) /\ [][Next]_vars

\* No course, or several.
Spec == InitMain({0} \cup 2..MaxCourses) /\ [][Next]_vars

\* The pool runs every queued task to its end, and main handles every
\* finished future and then writes the workbook.
FairSpec == Spec /\ WF_vars(Next)

\* ------------------------------------------------------------------------
\* Properties of the aggregator and the orchestrator.

Done(i) == task[i] \in {"finished", "consumed"}
Consumed(i) == task[i] = "consumed"
ConsolidatedOfCourse(rows, cid) == SelectSeq(rows, LAMBDA r : r[5] = cid)
EnrollmentsOfCourse(rows, cid) == SelectSeq(rows, LAMBDA r : DictGet(r, H_CourseID, 0) = cid)
ResultsOfCourse(i) ==
    SelectSeq(per_course_results, LAMBDA e : e.cshort = courses[i].shortname)

\* C1: a finished process_one_course task holds a result tuple, never an
\* exception, whichever of its remote calls failed.
C1_ProcessNeverRaises ==
    \A i \in 1..Len(courses) : Done(i) => ~fut[i].raised

\* C3: a course whose enrolled-users call failed returns no row of any of
\* the three kinds and its failure message is printed with the course's
\* name; none of the merged collections holds a row of that course, and
\* once main has taken its result the course's entry of the per-course
\* results has no row; every other course main has taken a result of has
\* exactly the rows its own task returned.
C3_UsersFailureIsLocal ==
    \A i \in 1..Len(courses) :
        (Done(i) /\ fut[i].users_failed) =>
            /\ fut[i].per_course_rows = <<>>
            /\ fut[i].consolidated_rows = <<>>
            /\ fut[i].enrollment_rows = <<>>
            /\ Msg("users_failed", courses[i].fullname) \in log
            /\ ConsolidatedOfCourse(consolidated_all, courses[i].id) = <<>>
            /\ EnrollmentsOfCourse(enrollment_all, courses[i].id) = <<>>
            /\ Len(ResultsOfCourse(i)) = (IF Consumed(i) THEN 1 ELSE 0)
            /\ \A k \in 1..Len(ResultsOfCourse(i)) : ResultsOfCourse(i)[k].rows = <<>>
            /\ \A j \in 1..Len(courses) :
                   (j # i /\ Consumed(j) /\ ~fut[j].raised) =>
                       /\ ConsolidatedOfCourse(consolidated_all, courses[j].id)
                              = fut[j].consolidated_rows
                       /\ EnrollmentsOfCourse(enrollment_all, courses[j].id)
                              = fut[j].enrollment_rows
                       /\ Len(ResultsOfCourse(j)) = 1
                       /\ ResultsOfCourse(j)[1].rows = fut[j].per_course_rows

\* The workbook is written; one course lost its users call, another has rows.
C3_Witness ==
    /\ pc = "done"
    /\ \E i, j \in 1..Len(courses) :
        /\ i # j
        /\ fut[i].users_failed
        /\ ~fut[j].raised
        /\ Len(fut[j].consolidated_rows) = MaxUsers
        /\ ConsolidatedOfCourse(workbook.consolidated, courses[j].id)
               = fut[j].consolidated_rows

\* The rows of the tasks that returned, in the order main took the futures.
RECURSIVE MergedConsolidated(_)
MergedConsolidated(ord) ==
    IF ord = <<>> THEN <<>>
    ELSE (IF fut[Head(ord)].raised THEN <<>> ELSE fut[Head(ord)].consolidated_rows)
         \o MergedConsolidated(Tail(ord))
RECURSIVE MergedEnrollment(_)
MergedEnrollment(ord) ==
    IF ord = <<>> THEN <<>>
    ELSE (IF fut[Head(ord)].raised THEN <<>> ELSE fut[Head(ord)].enrollment_rows)
         \o MergedEnrollment(Tail(ord))

IsPermutation(ord, n) == Len(ord) = n /\ Range(ord) = 1..n

\* C4: whichever tasks raise, the run is never aborted and the workbook is
\* eventually written; when it is, main has taken every task's outcome
\* exactly once, and the consolidated and enrollment collections, in memory
\* and in the workbook, are the rows of the tasks that returned, each
\* task's rows once and none of a task that raised.
C4_TaskFailuresNeverAbort ==
    /\ [](pc # "aborted")
    /\ [](pc = "done" =>
            /\ workbook.saved
            /\ IsPermutation(order, Len(courses))
            /\ \A i \in 1..Len(courses) : Consumed(i)
            /\ consolidated_all = MergedConsolidated(order)
            /\ enrollment_all = MergedEnrollment(order)
            /\ workbook.consolidated = MergedConsolidated(order)
            /\ workbook.enrollments
                   = [j \in 1..Len(MergedEnrollment(order)) |->
                         RowCells(MergedEnrollment(order)[j], EnrollmentHeaders)]
            /\ \A i \in 1..Len(courses) :
                   fut[i].raised =>
                       /\ ConsolidatedOfCourse(consolidated_all, courses[i].id) = <<>>
                       /\ EnrollmentsOfCourse(enrollment_all, courses[i].id) = <<>>)
    /\ <>(pc = "done")

\* The workbook is written after one task raised and another returned rows.
C4_Witness ==
    /\ pc = "done"
    /\ workbook.saved
    /\ \E i, j \in 1..Len(courses) :
        /\ fut[i].raised
        /\ ~fut[j].raised
        /\ fut[j].consolidated_rows # <<>>
        /\ workbook.consolidated = fut[j].consolidated_rows

\* The task whose result sheet s of the workbook was made from, and the cell
\* of that task's k-th activity in the sheet's j-th row, the row of the
\* task's j-th user.
TaskOfSheet(s) ==
    CHOOSE i \in 1..Len(courses) :
        courses[i].shortname = SortedByShortName(per_course_results)[s].cshort
ActivityCell(s, j, k) == workbook.sheets[s].rows[j][Len(BaseHeaders) + k]

\* C6: in every per-course sheet row, the cell of an activity whose id is
\* not in that user's activity-completion mapping is "Incomplete".
C6_AbsentActivityIncomplete ==
    pc = "done" =>
        \A s \in 1..Len(workbook.sheets) :
            \A j \in 1..Len(workbook.sheets[s].rows) :
                LET f == fut[TaskOfSheet(s)]
                IN  \A k \in 1..Len(f.activity_columns) :
                        f.activity_columns[k][1] \notin DictKeys(f.a_maps[j]) =>
                            ActivityCell(s, j, k) = <<"I","n","c","o","m","p","l","e","t","e">>

\* C10: in every per-course sheet row, the cell of an activity whose id is
\* in that user's activity-completion mapping is the label mapped to that
\* activity, also when two activities share type and name.
C10_PresentActivityOwnLabel ==
    pc = "done" =>
        \A s \in 1..Len(workbook.sheets) :
            \A j \in 1..Len(workbook.sheets[s].rows) :
                LET f == fut[TaskOfSheet(s)]
                IN  \A k \in 1..Len(f.activity_columns) :
                        f.activity_columns[k][1] \in DictKeys(f.a_maps[j]) =>
                            ActivityCell(s, j, k)
                                = DictGet(f.a_maps[j], f.activity_columns[k][1], <<>>)

\* The results of the tasks that returned, in submission order.
RECURSIVE ResultsInSubmissionOrder(_)
ResultsInSubmissionOrder(i) ==
    IF i > Len(courses) THEN <<>>
    ELSE (IF fut[i].raised THEN <<>>
          ELSE <<[cshort |-> courses[i].shortname, rows |-> fut[i].per_course_rows,
                  act_cols |-> fut[i].act_cols]>>)
         \o ResultsInSubmissionOrder(i + 1)

\* C9: the sequence of per-course sheets of the workbook depends on the
\* courses and the task results only, not on the order the tasks completed
\* in: it is the sequence the sort yields for the results in submission order.
C9_SheetOrderDeterministic ==
    pc = "done" =>
        workbook.sheets = MapSeq(CourseSheet, SortedByShortName(ResultsInSubmissionOrder(1)))

====
